---------------------------- MODULE Spec2Model ----------------------------
(***************************************************************************)
(* A model of automap.py: the batch script that reads a table of          *)
(* addresses, geocodes each one against a fixed origin, asks the routing   *)
(* service for the driving distance and duration, and writes the table     *)
(* back with two more columns.                                             *)
(*                                                                         *)
(* Three specifications:                                                   *)
(*   Spec       main(), one action per step between two remote calls       *)
(*   SpecAddr   build_full_address / _normalize_field on bounded inputs    *)
(*   SpecRound  the unit conversion and rounding of lines 144-145          *)
(*                                                                         *)
(* Python values are records tagged by "t":                                *)
(*   [t |-> "none"]                         None                           *)
(*   [t |-> "text",  chars |-> <<"a","b">>] a str, one character a cell   *)
(*   [t |-> "int",   n |-> 8001]            an int                         *)
(*   [t |-> "float", tenths |-> 80010]      a float, in tenths (8001.0)    *)
(*   [t |-> "nan"]                          float("nan") (an empty cell)   *)
(*   [t |-> "list",  items |-> <<...>>]     a list                         *)
(*   [t |-> "dict",  fields |-> [k |-> v]]  a dict with str keys           *)
(***************************************************************************)
EXTENDS Integers, Sequences, FiniteSets, TLC

VARIABLES
    pc,                 \* where main() stands
    API_KEY,            \* the value os.getenv gave at import
    input_file,         \* what pd.read_excel finds: "absent", "unreadable", "ok"
    columns,            \* the column names of the sheet
    table,              \* the sheet's rows: [Address, PostalCode, City]
    df,                 \* the two output columns, one record per row
    idx,                \* the row the loop is at (1-based here, 0-based in pandas)
    full_destination,   \* main's local of line 190
    origin_coords,      \* get_distance_and_duration's local of line 119
    destination_coords, \* get_distance_and_duration's local of line 120
    response,           \* what the last requests call did
    route_result,       \* what get_distance_and_duration returned (line 196)
    output_file,        \* what df.to_excel left on disk
    log,                \* history: every I/O call main() made, in order
    street,             \* SpecAddr: the arguments of build_full_address
    postal_code,
    city,
    full_address,       \* SpecAddr: its return value
    distance_m,         \* SpecRound: summary["distance"]
    duration_s,         \* SpecRound: summary["duration"]
    rounded             \* SpecRound: the pair of line 146

mainVars == <<pc, API_KEY, input_file, columns, table, df, idx,
              full_destination, origin_coords, destination_coords, response,
              route_result, output_file, log>>
addrVars == <<street, postal_code, city, full_address>>
roundVars == <<distance_m, duration_s, rounded>>
vars == <<mainVars, addrVars, roundVars>>

----------------------------------------------------------------------------
(* Bounds of the model *)

MaxTextLen == 2
MaxRows == 2
MaxMeters == 40
MaxSeconds == 40

----------------------------------------------------------------------------
(* Python values *)

PyNone == [t |-> "none"]
PyNaN == [t |-> "nan"]
Text(cs) == [t |-> "text", chars |-> cs]
PyInt(n) == [t |-> "int", n |-> n]
PyFloat(tenths) == [t |-> "float", tenths |-> tenths]
PyList(items) == [t |-> "list", items |-> items]
PyDict(fields) == [t |-> "dict", fields |-> fields]

Whitespace == {" ", "\t", "\n"}

RECURSIVE lstrip(_)
lstrip(cs) ==
    IF cs # <<>> /\ Head(cs) \in Whitespace THEN lstrip(Tail(cs)) ELSE cs

RECURSIVE rstrip(_)
rstrip(cs) ==
    IF cs # <<>> /\ cs[Len(cs)] \in Whitespace
    THEN rstrip(SubSeq(cs, 1, Len(cs) - 1))
    ELSE cs

\* str.strip()
strip(cs) == rstrip(lstrip(cs))

DigitChar(d) == <<"0", "1", "2", "3", "4", "5", "6", "7", "8", "9">>[d + 1]

RECURSIVE Digits(_)
Digits(n) ==
    IF n < 10 THEN <<DigitChar(n)>> ELSE Digits(n \div 10) \o <<DigitChar(n % 10)>>

Abs(n) == IF n < 0 THEN -n ELSE n

\* str(int)
str_int(n) == IF n < 0 THEN <<"-">> \o Digits(-n) ELSE Digits(n)

\* str(float), for a float given in tenths: "8001.0", "12.5", "-12.5"
str_float(tenths) ==
    (IF tenths < 0 THEN <<"-">> ELSE <<>>)
        \o Digits(Abs(tenths) \div 10) \o <<".">> \o <<DigitChar(Abs(tenths) % 10)>>

\* str(value) for the values a cell can hold
py_str(value) ==
    CASE value.t = "text" -> value.chars
      [] value.t = "int" -> str_int(value.n)
      [] value.t = "float" -> str_float(value.tenths)
      [] value.t = "nan" -> <<"n", "a", "n">>
      [] value.t = "none" -> <<"N", "o", "n", "e">>

\* pd.isna(value) on a scalar
pd_isna(value) == value.t \in {"none", "nan"}

\* float(value).is_integer()
is_integer(value) ==
    CASE value.t = "int" -> TRUE
      [] value.t = "float" -> value.tenths % 10 = 0

\* int(float(value)): truncation toward zero
int_of(value) ==
    CASE value.t = "int" -> value.n
      [] value.t = "float" ->
            IF value.tenths < 0 THEN -(Abs(value.tenths) \div 10)
            ELSE value.tenths \div 10

RECURSIVE Join(_, _)
Join(parts, sep) ==
    IF parts = <<>> THEN <<>>
    ELSE IF Len(parts) = 1 THEN parts[1]
    ELSE parts[1] \o sep \o Join(Tail(parts), sep)

----------------------------------------------------------------------------
(* Configuration, lines 24-35 *)

COUNTRY_HINT == <<"S", "w", "i", "t", "z", "e", "r", "l", "a", "n", "d">>
ADDRESS_COLUMN == "Address"
POSTAL_CODE_COLUMN == "PostalCode"
CITY_COLUMN == "City"

----------------------------------------------------------------------------
(* Address normalizer, lines 38-79 *)

normalize_number(value) ==
    IF is_integer(value) THEN str_int(int_of(value)) ELSE py_str(value)

_normalize_field(value) ==
    IF value.t = "none" THEN <<>>
    ELSE IF value.t = "text" THEN strip(value.chars)
    ELSE IF pd_isna(value) THEN <<>>
    ELSE IF value.t \in {"int", "float"} THEN normalize_number(value)
    ELSE strip(py_str(value))

\* locality_parts of lines 66-72
locality_parts(postal, town) ==
    LET postal_part == _normalize_field(postal)
        city_part == _normalize_field(town)
    IN  (IF postal_part # <<>> THEN <<postal_part>> ELSE <<>>)
            \o (IF city_part # <<>> THEN <<city_part>> ELSE <<>>)

\* a faulty variant of address_parts: every part is appended, empty or not
address_parts_keep_empty(road, postal, town) ==
    <<_normalize_field(road),
      Join(locality_parts(postal, town), <<" ">>),
      COUNTRY_HINT>>

\* parts, as it stands at line 79
address_parts(road, postal, town) ==
    LET street_part == _normalize_field(road)
        locality == locality_parts(postal, town)
    IN  (IF street_part # <<>> THEN <<street_part>> ELSE <<>>)
            \o (IF locality # <<>> THEN <<Join(locality, <<" ">>)>> ELSE <<>>)
            \o (IF COUNTRY_HINT # <<>> THEN <<COUNTRY_HINT>> ELSE <<>>)

build_full_address(road, postal, town) ==
    Join(address_parts(road, postal, town), <<",", " ">>)


----------------------------------------------------------------------------
(* Unit conversion and rounding, lines 144-145.                            *)
(* x / y on Python numbers is the IEEE-754 double nearest to the quotient  *)
(* (ties to even); round(f, k) is the decimal of k places nearest to the   *)
(* exact value of the double f (ties to even).  A value round() returns is *)
(* held as an integer count of 10^-k.                                      *)

RECURSIVE BitLen(_)
BitLen(n) == IF n = 0 THEN 0 ELSE 1 + BitLen(n \div 2)

\* k more quotient bits of r/d: <<the remainder left, the last bit produced>>
RECURSIVE ShiftBits(_, _, _, _)
ShiftBits(r, d, k, last) ==
    IF k = 0 THEN <<r, last>>
    ELSE ShiftBits((2 * r) % d, d, k - 1, (2 * r) \div d)

\* the remainder of r/d (r < d) once its leading 1 bit has been produced
RECURSIVE LeadingBit(_, _)
LeadingBit(r, d) == IF 2 * r < d THEN LeadingBit(2 * r, d) ELSE 2 * r - d

\* the 53-bit significand of n/d: <<remainder beyond bit 53, bit 53>>
Significand(n, d) ==
    IF n \div d >= 1
    THEN ShiftBits(n % d, d, 53 - BitLen(n \div d), (n \div d) % 2)
    ELSE ShiftBits(LeadingBit(n % d, d), d, 52, 1)

\* sign of (the double n / d) - (the rational n/d), for n >= 0, d > 0
TrueDivError(n, d) ==
    IF n = 0 THEN 0
    ELSE LET tail == Significand(n, d)
         IN  IF tail[1] = 0 THEN 0
             ELSE IF 2 * tail[1] < d THEN -1
             ELSE IF 2 * tail[1] > d THEN 1
             ELSE IF tail[2] = 0 THEN -1 ELSE 1

\* a faulty variant of py_round_div: the quotient rounded half up as a decimal
py_round_half_up(n, d, scale) ==
    IF 2 * ((n * scale) % d) < d THEN (n * scale) \div d ELSE (n * scale) \div d + 1

\* round(n / d, k) with scale = 10^k, as a count of 1/scale
py_round_div(n, d, scale) ==
    LET P == (n * scale) \div d
        R == (n * scale) % d
    IN  IF 2 * R < d THEN P
        ELSE IF 2 * R > d THEN P + 1
        ELSE CASE TrueDivError(n, d) = 1 -> P + 1
               [] TrueDivError(n, d) = -1 -> P
               [] OTHER -> IF P % 2 = 0 THEN P ELSE P + 1

\* line 144: round(distance_m / 1000, 2), in hundredths of a kilometre
distance_km_of(meters) == py_round_div(meters, 1000, 100)

\* line 145: round(duration_s / 60, 1), in tenths of a minute
duration_minutes_of(seconds) == py_round_div(seconds, 60, 10)

----------------------------------------------------------------------------
(* Python evaluation with exceptions: an outcome is a value or an exception *)

Return(v) == [raised |-> FALSE, exc |-> "", value |-> v]
Raise(e) == [raised |-> TRUE, exc |-> e, value |-> PyNone]
PyTuple(items) == [t |-> "tuple", items |-> items]
\* a float round() returned: count * 10^-places
Rounded(count, places) == [t |-> "rounded", count |-> count, places |-> places]
EmptyDict == PyDict(<<>>)

\* bool(v)
truthy(v) ==
    CASE v.t = "none" -> FALSE
      [] v.t = "text" -> v.chars # <<>>
      [] v.t = "int" -> v.n # 0
      [] v.t = "float" -> v.tenths # 0
      [] v.t \in {"list", "tuple"} -> v.items # <<>>
      [] v.t = "dict" -> DOMAIN v.fields # {}
      [] OTHER -> TRUE

\* v.get(key): only a dict has the method
py_get(v, key) ==
    IF v.t # "dict" THEN Raise("AttributeError")
    ELSE IF key \in DOMAIN v.fields THEN Return(v.fields[key])
    ELSE Return(PyNone)

\* v[i] for a 0-based int i
py_index(v, i) ==
    CASE v.t \in {"list", "tuple"} ->
            IF i + 1 <= Len(v.items) THEN Return(v.items[i + 1]) ELSE Raise("IndexError")
      [] v.t = "text" ->
            IF i + 1 <= Len(v.chars) THEN Return(Text(<<v.chars[i + 1]>>))
            ELSE Raise("IndexError")
      [] v.t = "dict" -> Raise("KeyError")
      [] OTHER -> Raise("TypeError")

\* len(v)
py_len(v) ==
    CASE v.t \in {"list", "tuple"} -> Return(Len(v.items))
      [] v.t = "text" -> Return(Len(v.chars))
      [] v.t = "dict" -> Return(Cardinality(DOMAIN v.fields))
      [] OTHER -> Raise("TypeError")

\* x or {}
or_empty_dict(v) == IF truthy(v) THEN v ELSE EmptyDict

----------------------------------------------------------------------------
(* What a requests call inside `try` can do: raise, or hand back the body  *)
(* response.json() parsed.  A RequestException covers connection errors,   *)
(* timeouts and raise_for_status(); "ValueError" is what response.json()   *)
(* raises on a body that is not JSON where that error is no                *)
(* RequestException (requests before 2.27).                                *)

HttpRaises(e) == [kind |-> "raises", exc |-> e, json |-> PyNone]
HttpJson(data) == [kind |-> "json", exc |-> "", json |-> data]
NoResponse == [kind |-> "none", exc |-> "", json |-> PyNone]
NoFile == [exists |-> FALSE, rows |-> <<>>]

\* lines 92-97 and 127-132: try / except requests.RequestException
try_request(resp) ==
    IF resp.kind = "raises"
    THEN IF resp.exc = "RequestException" THEN Return(PyNone) ELSE Raise(resp.exc)
    ELSE Return(resp.json)

----------------------------------------------------------------------------
(* Geocoder client, lines 82-109, from the response on *)

\* lines 105-109, given coordinates
geocode_coordinates(coordinates) ==
    IF ~truthy(coordinates) THEN Return(PyNone)
    ELSE IF py_len(coordinates).raised THEN py_len(coordinates)
    ELSE IF py_len(coordinates).value < 2 THEN Return(PyNone)
    ELSE IF py_index(coordinates, 0).raised THEN py_index(coordinates, 0)
    ELSE IF py_index(coordinates, 1).raised THEN py_index(coordinates, 1)
    ELSE Return(PyTuple(<<py_index(coordinates, 0).value,
                          py_index(coordinates, 1).value>>))

\* lines 103-104, given features[0]
geocode_feature(feature) ==
    IF py_get(feature, "geometry").raised THEN py_get(feature, "geometry")
    ELSE LET geometry == or_empty_dict(py_get(feature, "geometry").value)
         IN  IF py_get(geometry, "coordinates").raised
             THEN py_get(geometry, "coordinates")
             ELSE geocode_coordinates(py_get(geometry, "coordinates").value)

\* lines 99-103, given data
geocode_data(data) ==
    IF py_get(data, "features").raised THEN py_get(data, "features")
    ELSE LET features == py_get(data, "features").value
         IN  IF ~truthy(features) THEN Return(PyNone)
             ELSE IF py_index(features, 0).raised THEN py_index(features, 0)
             ELSE geocode_feature(py_index(features, 0).value)

geocode_address(resp) ==
    IF resp.kind = "raises" THEN try_request(resp)
    ELSE geocode_data(resp.json)

----------------------------------------------------------------------------
(* Router client, lines 112-146 *)

NoResult == PyTuple(<<PyNone, PyNone>>)

\* x / y for a JSON number x; anything else is a TypeError
is_number(v) == v.t \in {"int"}

\* lines 139-146, given summary
route_summary(summary) ==
    IF py_get(summary, "distance").raised THEN py_get(summary, "distance")
    ELSE LET dist == py_get(summary, "distance").value
             dur == py_get(summary, "duration").value
         IN  IF dist.t = "none" \/ dur.t = "none" THEN Return(NoResult)
             ELSE IF ~is_number(dist) \/ ~is_number(dur) THEN Raise("TypeError")
             ELSE Return(PyTuple(<<Rounded(distance_km_of(dist.n), 2),
                                   Rounded(duration_minutes_of(dur.n), 1)>>))

\* lines 134-138, given data
route_data(data) ==
    IF py_get(data, "routes").raised THEN py_get(data, "routes")
    ELSE LET routes == py_get(data, "routes").value
         IN  IF ~truthy(routes) THEN Return(NoResult)
             ELSE IF py_index(routes, 0).raised THEN py_index(routes, 0)
             ELSE IF py_get(py_index(routes, 0).value, "summary").raised
             THEN py_get(py_index(routes, 0).value, "summary")
             ELSE route_summary(
                      or_empty_dict(py_get(py_index(routes, 0).value, "summary").value))

\* lines 127-146, from the response on
directions_result(resp) ==
    IF resp.kind = "raises"
    THEN IF try_request(resp).raised THEN try_request(resp)
         ELSE Return(NoResult)
    ELSE route_data(resp.json)

\* line 121
geocoding_failed(origin, destination) == ~truthy(origin) \/ ~truthy(destination)

----------------------------------------------------------------------------
(* Idle values of the variables a specification does not use *)

MainIdle ==
    /\ pc = "idle"
    /\ API_KEY = PyNone
    /\ input_file = "absent"
    /\ columns = {}
    /\ table = <<>>
    /\ df = <<>>
    /\ idx = 0
    /\ full_destination = <<>>
    /\ origin_coords = PyNone
    /\ destination_coords = PyNone
    /\ response = NoResponse
    /\ route_result = PyNone
    /\ output_file = NoFile
    /\ log = <<>>

AddrIdle ==
    /\ street = PyNone
    /\ postal_code = PyNone
    /\ city = PyNone
    /\ full_address = PyNone

RoundIdle ==
    /\ distance_m = 0
    /\ duration_s = 0
    /\ rounded = PyNone

----------------------------------------------------------------------------
(* SpecAddr: build_full_address on every combination of bounded cells *)

Alphabet == {"a", " "}
Texts == UNION {[1..k -> Alphabet] : k \in 0..MaxTextLen}
MainSt1 == <<"M", "a", "i", "n", " ", "S", "t", " ", "1">>
Zurich == <<"Z", "ü", "r", "i", "c", "h">>
Numbers == {PyInt(8001), PyFloat(80010), PyFloat(125), PyInt(0), PyFloat(-125)}
CellValues ==
    {PyNone, PyNaN} \cup {Text(cs) : cs \in Texts \cup {MainSt1, Zurich}} \cup Numbers

InitAddr ==
    /\ street \in CellValues
    /\ postal_code \in CellValues
    /\ city \in CellValues
    /\ full_address = PyNone
    /\ MainIdle
    /\ RoundIdle

CallBuildFullAddress ==
    /\ full_address = PyNone
    /\ full_address' = Text(build_full_address(street, postal_code, city))
    /\ UNCHANGED <<street, postal_code, city, mainVars, roundVars>>

NextAddr == CallBuildFullAddress

SpecAddr == InitAddr /\ [][NextAddr]_vars

----------------------------------------------------------------------------
(* SpecRound: lines 144-146 on bounded whole numbers of metres and seconds *)

InitRound ==
    /\ distance_m \in (0..MaxMeters) \cup {12345}
    /\ duration_s \in (0..MaxSeconds) \cup {987}
    /\ rounded = PyNone
    /\ MainIdle
    /\ AddrIdle

ConvertAndRound ==
    /\ rounded = PyNone
    /\ rounded' = [t |-> "pair",
                   distance_km |-> distance_km_of(distance_m),
                   duration_minutes |-> duration_minutes_of(duration_s)]
    /\ UNCHANGED <<distance_m, duration_s, mainVars, addrVars>>

NextRound == ConvertAndRound

SpecRound == InitRound /\ [][NextRound]_vars

----------------------------------------------------------------------------
(* Spec: main(), lines 149-217 *)

NO_ADDRESS == Text(<<"N", "O", "_", "A", "D", "D", "R", "E", "S", "S">>)
API_ERROR == Text(<<"A", "P", "I", "_", "E", "R", "R", "O", "R">>)
Blank == Text(<<>>)

\* the bodies the geocoding endpoint answers with
Coordinates == PyList(<<PyInt(8), PyInt(47)>>)
GeoBody(coordinates) ==
    PyDict([features |->
        PyList(<<PyDict([geometry |-> PyDict([coordinates |-> coordinates])])>>)])
ErrorBody == PyDict([error |-> Text(<<"x">>)])

GeocodeResponses ==
    { HttpRaises("RequestException"),
      HttpRaises("ValueError"),
      HttpJson(GeoBody(Coordinates)),
      HttpJson(PyDict([features |-> PyList(<<>>)])),
      HttpJson(ErrorBody),
      HttpJson(PyDict([features |-> PyList(<<PyDict([geometry |-> PyNone])>>)])),
      HttpJson(GeoBody(PyList(<<PyInt(8)>>))),
      HttpJson(GeoBody(PyInt(5))),
      HttpJson(PyDict([features |-> PyList(<<Text(<<"x">>)>>)])),
      HttpJson(PyList(<<>>)) }

\* the bodies the directions endpoint answers with
RouteBody(summary) == PyDict([routes |-> PyList(<<PyDict([summary |-> summary])>>)])
Summary(dist, dur) == PyDict([distance |-> dist, duration |-> dur])

DirectionsResponses ==
    { HttpRaises("RequestException"),
      HttpRaises("ValueError"),
      HttpJson(RouteBody(Summary(PyInt(12345), PyInt(987)))),
      HttpJson(RouteBody(Summary(PyInt(0), PyInt(0)))),
      HttpJson(PyDict([routes |-> PyList(<<>>)])),
      HttpJson(ErrorBody),
      HttpJson(RouteBody(PyDict([duration |-> PyInt(987)]))),
      HttpJson(RouteBody(PyDict([distance |-> PyInt(12345)]))),
      HttpJson(RouteBody(PyNone)),
      HttpJson(RouteBody(Summary(Text(<<"1">>), PyInt(987)))),
      HttpJson(PyList(<<>>)) }

\* the rows a sheet is made of
RowSamples ==
    { [Address |-> PyNaN, PostalCode |-> PyInt(8001), City |-> Text(<<"Z">>)],
      [Address |-> Text(<<>>), PostalCode |-> PyNaN, City |-> Text(<<"Z">>)],
      [Address |-> Text(<<" ">>), PostalCode |-> PyInt(8001), City |-> PyNaN],
      [Address |-> Text(<<"a">>), PostalCode |-> PyInt(8001), City |-> Text(<<"Z">>)],
      [Address |-> PyInt(12), PostalCode |-> PyNaN, City |-> PyNaN] }

Tables == UNION {[1..k -> RowSamples] : k \in 0..MaxRows}
RequiredColumns == {ADDRESS_COLUMN, POSTAL_CODE_COLUMN, CITY_COLUMN}

Event(call, row, arg) == [call |-> call, row |-> row, arg |-> arg]

Init ==
    /\ pc = "start"
    /\ API_KEY \in {PyNone, Text(<<>>), Text(<<"k">>)}
    /\ input_file \in {"absent", "unreadable", "ok"}
    /\ columns \in SUBSET RequiredColumns
    /\ table \in Tables
    /\ input_file # "ok" => columns = {} /\ table = <<>>
    /\ df = <<>>
    /\ idx = 0
    /\ full_destination = <<>>
    /\ origin_coords = PyNone
    /\ destination_coords = PyNone
    /\ response = NoResponse
    /\ route_result = PyNone
    /\ output_file = NoFile
    /\ log = <<>>
    /\ AddrIdle
    /\ RoundIdle

\* lines 151-153
CheckApiKey ==
    /\ pc = "start"
    /\ pc' = IF ~truthy(API_KEY) THEN "aborted" ELSE "read"
    /\ UNCHANGED <<API_KEY, input_file, columns, table, df, idx, full_destination,
                   origin_coords, destination_coords, response, route_result,
                   output_file, log, addrVars, roundVars>>

\* lines 155-162
ReadExcel ==
    /\ pc = "read"
    /\ log' = Append(log, Event("read_excel", 0, input_file))
    /\ pc' = IF input_file = "ok" THEN "validate" ELSE "aborted"
    /\ UNCHANGED <<API_KEY, input_file, columns, table, df, idx, full_destination,
                   origin_coords, destination_coords, response, route_result,
                   output_file, addrVars, roundVars>>

\* a faulty variant of missing_columns: only the address column is looked for
missing_columns_address_only(cols) == {col \in {ADDRESS_COLUMN} : col \notin cols}

\* line 165
missing_columns(cols) == {col \in RequiredColumns : col \notin cols}

\* lines 164-177
ValidateColumns ==
    /\ pc = "validate"
    /\ IF missing_columns(columns) # {}
       THEN /\ pc' = "aborted"
            /\ UNCHANGED <<df, idx>>
       ELSE /\ df' = [i \in 1..Len(table) |->
                        [Distance_km |-> Blank, Duration_minutes |-> Blank]]
            /\ idx' = 1
            /\ pc' = "loop"
    /\ UNCHANGED <<API_KEY, input_file, columns, table, full_destination,
                   origin_coords, destination_coords, response, route_result,
                   output_file, log, addrVars, roundVars>>

\* a faulty variant of is_blank_address: the text is not stripped
is_blank_address_unstripped(address) == pd_isna(address) \/ py_str(address) = <<>>

\* line 183
is_blank_address(address) == pd_isna(address) \/ strip(py_str(address)) = <<>>

both_columns(value) == [Distance_km |-> value, Duration_minutes |-> value]

\* lines 178-186: a row with no address
RowNoAddress ==
    /\ pc = "loop"
    /\ idx <= Len(table)
    /\ is_blank_address(table[idx].Address)
    /\ df' = [df EXCEPT ![idx] = both_columns(NO_ADDRESS)]
    /\ idx' = idx + 1
    /\ UNCHANGED <<pc, API_KEY, input_file, columns, table, full_destination,
                   origin_coords, destination_coords, response, route_result,
                   output_file, log, addrVars, roundVars>>

\* lines 178-196: a row with an address, up to the call of the router client
RowBuildAddress ==
    /\ pc = "loop"
    /\ idx <= Len(table)
    /\ ~is_blank_address(table[idx].Address)
    /\ full_destination' = build_full_address(table[idx].Address,
                                              table[idx].PostalCode,
                                              table[idx].City)
    /\ IF full_destination' = <<>>
       THEN /\ df' = [df EXCEPT ![idx] = both_columns(NO_ADDRESS)]
            /\ idx' = idx + 1
            /\ pc' = "loop"
       ELSE /\ pc' = "geocode_origin"
            /\ UNCHANGED <<df, idx>>
    /\ origin_coords' = PyNone
    /\ destination_coords' = PyNone
    /\ response' = NoResponse
    /\ route_result' = PyNone
    /\ UNCHANGED <<API_KEY, input_file, columns, table, output_file, log,
                   addrVars, roundVars>>

\* a faulty variant of requests_get: the request is sent a second time
requests_get_retried(history, row, arg) ==
    Append(Append(history, Event("geocode", row, arg)), Event("geocode", row, arg))

\* line 93: requests.get(GEOCODE_URL, ...), one request on the wire
requests_get(history, row, arg) == Append(history, Event("geocode", row, arg))

\* line 128: requests.post(DIRECTIONS_URL, ...), one request on the wire
requests_post(history, row) == Append(history, Event("directions", row, "route"))

\* line 119: geocode_address(origin, api_key)
GeocodeOrigin ==
    /\ pc = "geocode_origin"
    /\ \E r \in GeocodeResponses :
        /\ response' = r
        /\ log' = requests_get(log, idx, "origin")
        /\ IF geocode_address(r).raised
           THEN pc' = "crashed" /\ UNCHANGED origin_coords
           ELSE pc' = "geocode_destination"
                /\ origin_coords' = geocode_address(r).value
    /\ UNCHANGED <<API_KEY, input_file, columns, table, df, idx, full_destination,
                   destination_coords, route_result, output_file, addrVars, roundVars>>

\* lines 120-122: geocode_address(destination, api_key), then the check of both
GeocodeDestination ==
    /\ pc = "geocode_destination"
    /\ \E r \in GeocodeResponses :
        /\ response' = r
        /\ log' = requests_get(log, idx, "destination")
        /\ IF geocode_address(r).raised
           THEN pc' = "crashed" /\ UNCHANGED <<destination_coords, route_result>>
           ELSE /\ destination_coords' = geocode_address(r).value
                /\ IF geocoding_failed(origin_coords, destination_coords')
                   THEN pc' = "annotate" /\ route_result' = NoResult
                   ELSE pc' = "directions" /\ UNCHANGED route_result
    /\ UNCHANGED <<API_KEY, input_file, columns, table, df, idx, full_destination,
                   origin_coords, output_file, addrVars, roundVars>>

\* lines 124-146: the directions request and what is made of its answer
Directions ==
    /\ pc = "directions"
    /\ \E r \in DirectionsResponses :
        /\ response' = r
        /\ log' = requests_post(log, idx)
        /\ IF directions_result(r).raised
           THEN pc' = "crashed" /\ UNCHANGED route_result
           ELSE pc' = "annotate" /\ route_result' = directions_result(r).value
    /\ UNCHANGED <<API_KEY, input_file, columns, table, df, idx, full_destination,
                   origin_coords, destination_coords, output_file, addrVars, roundVars>>

\* a faulty variant of annotation: a failure marks the distance cell only
annotation_one_column(result) ==
    IF result.items[1].t = "none" \/ result.items[2].t = "none"
    THEN [Distance_km |-> API_ERROR, Duration_minutes |-> Blank]
    ELSE [Distance_km |-> result.items[1], Duration_minutes |-> result.items[2]]

\* lines 202-207
annotation(result) ==
    IF result.items[1].t = "none" \/ result.items[2].t = "none"
    THEN both_columns(API_ERROR)
    ELSE [Distance_km |-> result.items[1], Duration_minutes |-> result.items[2]]

\* a faulty variant of sleep: no pause
sleep_skipped(history, row) == history

\* line 209
sleep(history, row) == Append(history, Event("sleep", row, "SLEEP_BETWEEN_CALLS"))

\* lines 202-209: the row's cells, then the pause
AnnotateRow ==
    /\ pc = "annotate"
    /\ df' = [df EXCEPT ![idx] = annotation(route_result)]
    /\ log' = sleep(log, idx)
    /\ idx' = idx + 1
    /\ pc' = "loop"
    /\ UNCHANGED <<API_KEY, input_file, columns, table, full_destination,
                   origin_coords, destination_coords, response, route_result,
                   output_file, addrVars, roundVars>>

\* line 178: the rows are exhausted
EndOfLoop ==
    /\ pc = "loop"
    /\ idx > Len(table)
    /\ pc' = "write"
    /\ UNCHANGED <<API_KEY, input_file, columns, table, df, idx, full_destination,
                   origin_coords, destination_coords, response, route_result,
                   output_file, log, addrVars, roundVars>>

\* lines 211-217: df.to_excel succeeds or raises
WriteOutput ==
    /\ pc = "write"
    /\ \E ok \in BOOLEAN :
        /\ log' = Append(log, Event("to_excel", 0, IF ok THEN "ok" ELSE "raised"))
        /\ output_file' = IF ok THEN [exists |-> TRUE, rows |-> df] ELSE output_file
    /\ pc' = "done"
    /\ UNCHANGED <<API_KEY, input_file, columns, table, df, idx, full_destination,
                   origin_coords, destination_coords, response, route_result,
                   addrVars, roundVars>>

Next ==
    \/ CheckApiKey
    \/ ReadExcel
    \/ ValidateColumns
    \/ RowNoAddress
    \/ RowBuildAddress
    \/ GeocodeOrigin
    \/ GeocodeDestination
    \/ Directions
    \/ AnnotateRow
    \/ EndOfLoop
    \/ WriteOutput

Spec == Init /\ [][Next]_vars

----------------------------------------------------------------------------
(* What the properties below speak of *)

\* the address cell is missing, empty or made of whitespace only
AddressIsBlank(address) ==
    \/ address.t \in {"none", "nan"}
    \/ address.t = "text" /\ \A k \in 1..Len(address.chars) : address.chars[k] \in Whitespace

IsNumber(cell) == cell.t = "rounded"

\* what row i holds in its two output cells
RowOutcome(i) ==
    CASE IsNumber(df[i].Distance_km) /\ IsNumber(df[i].Duration_minutes) -> "numeric"
      [] df[i].Distance_km = NO_ADDRESS /\ df[i].Duration_minutes = NO_ADDRESS -> "NO_ADDRESS"
      [] df[i].Distance_km = API_ERROR /\ df[i].Duration_minutes = API_ERROR -> "API_ERROR"
      [] OTHER -> "other"

\* the places in the log of the calls `call` made for row i
Calls(call, i) == {k \in 1..Len(log) : log[k].call = call /\ log[k].row = i}
GeocodeCalls(i, arg) == {k \in Calls("geocode", i) : log[k].arg = arg}
RemoteCalls == {k \in 1..Len(log) : log[k].call \in {"geocode", "directions"}}

Rows == 1..Len(table)
\* the rows the loop has left behind
RowsDone == {i \in Rows : i < idx}

IsPair(coords) == coords.t = "tuple" /\ Len(coords.items) = 2

\* the body has a first route whose summary gives a distance and a duration
HasRouteSummary(resp) ==
    /\ resp.kind = "json"
    /\ resp.json.t = "dict"
    /\ "routes" \in DOMAIN resp.json.fields
    /\ LET routes == resp.json.fields["routes"]
       IN  /\ routes.t = "list"
           /\ routes.items # <<>>
           /\ routes.items[1].t = "dict"
           /\ "summary" \in DOMAIN routes.items[1].fields
           /\ LET summary == routes.items[1].fields["summary"]
              IN  /\ summary.t = "dict"
                  /\ {"distance", "duration"} \subseteq DOMAIN summary.fields
                  /\ summary.fields["distance"].t # "none"
                  /\ summary.fields["duration"].t # "none"

----------------------------------------------------------------------------
(* C1: once the per-row loop has ended, every row holds a numeric pair,    *)
(* NO_ADDRESS in both cells or API_ERROR in both cells: no mixed pair, no  *)
(* cell left blank.                                                        *)
C1_EveryRowHasOneOutcome ==
    pc \in {"write", "done"} =>
        /\ Len(df) = Len(table)
        /\ \A i \in Rows : RowOutcome(i) \in {"numeric", "NO_ADDRESS", "API_ERROR"}

C1_Witness ==
    /\ pc = "write"
    /\ Len(table) = 2
    /\ RowOutcome(1) = "numeric"
    /\ RowOutcome(2) = "API_ERROR"

(* C2: a row whose address is missing, empty or whitespace-only causes no  *)
(* geocoding and no directions request, and once the loop has passed it    *)
(* both its cells hold NO_ADDRESS.                                         *)
C2_BlankAddressNoCalls ==
    \A i \in Rows :
        AddressIsBlank(table[i].Address) =>
            /\ Calls("geocode", i) = {}
            /\ Calls("directions", i) = {}
            /\ i < idx => RowOutcome(i) = "NO_ADDRESS"

C2_Witness ==
    /\ Len(table) = 2
    /\ idx = 3
    /\ table[1].Address = Text(<<" ">>)
    /\ RowOutcome(1) = "NO_ADDRESS"
    /\ RowOutcome(2) = "numeric"

(* C3: no exception ever leaves the clients, hence the per-row loop: every *)
(* failure of a remote call comes back as "no result".                     *)
C3_NoExceptionEscapes == pc # "crashed"

(* C4, as claimed: every row the loop has passed, whatever its outcome,    *)
(* was followed by one pause.                                              *)
C4_PauseAfterEveryRow == \A i \in RowsDone : Cardinality(Calls("sleep", i)) = 1

(* C4, amended: a row that ended as a numeric pair or as API_ERROR was     *)
(* followed by exactly one pause, after the row's requests and before any  *)
(* call made for a later row; a row that ended as NO_ADDRESS by none.      *)
C4_PauseAfterRoutedRows ==
    \A i \in RowsDone :
        /\ RowOutcome(i) \in {"numeric", "API_ERROR"} =>
            /\ Cardinality(Calls("sleep", i)) = 1
            /\ \A s \in Calls("sleep", i) :
                /\ \A k \in Calls("geocode", i) \cup Calls("directions", i) : k < s
                /\ \A k \in 1..Len(log) : log[k].row > i => s < k
        /\ RowOutcome(i) = "NO_ADDRESS" => Calls("sleep", i) = {}

C4_Witness ==
    /\ Len(table) = 2
    /\ idx = 3
    /\ RowOutcome(1) = "API_ERROR"
    /\ RowOutcome(2) = "numeric"

(* C5: with the API key missing, the input file absent or a required       *)
(* column missing, main() never gets past its checks: no row is processed, *)
(* no remote call is made, no output file is written; with the key missing *)
(* the input file is not even read.                                        *)
C5_AbortBeforeAnyCall ==
    /\ (~truthy(API_KEY) \/ input_file = "absent" \/ ~(RequiredColumns \subseteq columns)) =>
        /\ pc \in {"start", "read", "validate", "aborted"}
        /\ RemoteCalls = {}
        /\ Calls("to_excel", 0) = {}
        /\ ~output_file.exists
        /\ idx = 0
        /\ df = <<>>
    /\ ~truthy(API_KEY) => log = <<>>

C5_Witness ==
    /\ pc = "aborted"
    /\ truthy(API_KEY)
    /\ input_file = "ok"
    /\ columns = {ADDRESS_COLUMN, CITY_COLUMN}
    /\ Len(table) = 2
    /\ Calls("read_excel", 0) # {}

(* C6: once the checks have passed, a run that is over has gone through    *)
(* every row, in order, and has written the output exactly once.           *)
C6_BatchAlwaysCompletes ==
    pc \in {"done", "crashed"} =>
        /\ idx = Len(table) + 1
        /\ Cardinality(Calls("to_excel", 0)) = 1
        /\ \A j, k \in 1..Len(log) : j < k => log[j].row <= log[k].row \/ log[k].row = 0

\* the row get_distance_and_duration was last called for
LastRoutedRow == IF pc = "crashed" THEN idx ELSE idx - 1

(* C7: a row with an address ends numeric exactly when both geocodes gave  *)
(* a coordinate pair and the directions answer has a route summary with a  *)
(* distance and a duration; in every other case it ends as API_ERROR; the  *)
(* directions request is made only after two successful geocodes.          *)
C7_NumericIffRouted ==
    (pc \in {"loop", "crashed"} /\ LastRoutedRow \in Rows /\ ~AddressIsBlank(table[LastRoutedRow].Address)) =>
        LET routed == /\ IsPair(origin_coords)
                      /\ IsPair(destination_coords)
                      /\ Calls("directions", LastRoutedRow) # {}
                      /\ HasRouteSummary(response)
        IN  /\ RowOutcome(LastRoutedRow) = "numeric" <=> routed
            /\ ~routed => RowOutcome(LastRoutedRow) = "API_ERROR"
            /\ Calls("directions", LastRoutedRow) # {} =>
                    IsPair(origin_coords) /\ IsPair(destination_coords)

(* C8: no request is repeated: for one row at most one origin geocode, one *)
(* destination geocode and one directions request are made, and a row that *)
(* ended as API_ERROR got there without any request made twice.            *)
C8_NoRetries ==
    \A i \in Rows :
        /\ Cardinality(GeocodeCalls(i, "origin")) <= 1
        /\ Cardinality(GeocodeCalls(i, "destination")) <= 1
        /\ Cardinality(Calls("geocode", i)) <= 2
        /\ Cardinality(Calls("directions", i)) <= 1

C8_Witness ==
    /\ idx = 2
    /\ pc = "loop"
    /\ RowOutcome(1) = "API_ERROR"
    /\ response = HttpRaises("RequestException")
    /\ Cardinality(Calls("geocode", 1)) = 2
    /\ Cardinality(Calls("directions", 1)) = 1

----------------------------------------------------------------------------
(* Properties of build_full_address, under SpecAddr *)

EndsWith(cs, suffix) ==
    Len(cs) >= Len(suffix) /\ SubSeq(cs, Len(cs) - Len(suffix) + 1, Len(cs)) = suffix

\* the segments of cs between the separators ", "
RECURSIVE SplitAt(_, _)
SplitAt(cs, current) ==
    IF cs = <<>> THEN <<current>>
    ELSE IF Len(cs) >= 2 /\ cs[1] = "," /\ cs[2] = " "
    THEN <<current>> \o SplitAt(SubSeq(cs, 3, Len(cs)), <<>>)
    ELSE SplitAt(Tail(cs), Append(current, Head(cs)))

Segments(cs) == SplitAt(cs, <<>>)

NonEmpty(parts) == SelectSeq(parts, LAMBDA part : part # <<>>)

\* "<street>, <postal> <city>, <country-hint>" with the empty parts left out
ExpectedAddress ==
    Join(NonEmpty(<<_normalize_field(street),
                    Join(NonEmpty(<<_normalize_field(postal_code),
                                    _normalize_field(city)>>), <<" ">>),
                    COUNTRY_HINT>>), <<",", " ">>)

MainSt1Address ==
    <<"M", "a", "i", "n", " ", "S", "t", " ", "1", ",", " ", "8", "0", "0", "1", " ",
      "Z", "ü", "r", "i", "c", "h", ",", " ",
      "S", "w", "i", "t", "z", "e", "r", "l", "a", "n", "d">>

(* C9: the address built from any street, postal code and city ends with   *)
(* the country hint, is made of non-empty segments joined by ", ", has the *)
(* shape "<street>, <postal> <city>, <country-hint>" with the empty parts  *)
(* left out, and for "Main St 1", 8001, "Zürich" is exactly                *)
(* "Main St 1, 8001 Zürich, Switzerland".                                  *)
C9_AddressShape ==
    full_address # PyNone =>
        /\ EndsWith(full_address.chars, COUNTRY_HINT)
        /\ \A k \in 1..Len(Segments(full_address.chars)) :
                Segments(full_address.chars)[k] # <<>>
        /\ Len(Segments(full_address.chars)) \in 1..3
        /\ full_address.chars = ExpectedAddress
        /\ (street = Text(MainSt1) /\ postal_code = PyInt(8001) /\ city = Text(Zurich)) =>
                full_address.chars = MainSt1Address
        /\ (postal_code = PyFloat(80010) /\ street = PyNone /\ city = PyNone) =>
                full_address.chars = <<"8", "0", "0", "1", ",", " ">> \o COUNTRY_HINT

C9_Witness ==
    /\ full_address # PyNone
    /\ street = Text(MainSt1)
    /\ postal_code = PyInt(8001)
    /\ city = Text(Zurich)

----------------------------------------------------------------------------
(* Properties of the conversion, under SpecRound *)

\* count/scale is a decimal nearest to n/d
Nearest(count, scale, n, d) == 2 * Abs(count * d - n * scale) <= d

(* C10, as claimed: the distance is the kilometres rounded to 2 decimals,  *)
(* the duration the minutes rounded to 1 decimal, and 12345 m, 987 s give  *)
(* 12.35 km and 16.5 min.                                                  *)
C10_RoundedAsClaimed ==
    rounded # PyNone =>
        /\ Nearest(rounded.distance_km, 100, distance_m, 1000)
        /\ Nearest(rounded.duration_minutes, 10, duration_s, 60)
        /\ distance_m = 12345 => rounded.distance_km = 1235
        /\ duration_s = 987 => rounded.duration_minutes = 165

(* C10, amended: the same, but 987 s give 16.4 min: 987 / 60 is the double *)
(* just below 16.45, and round() goes by the double.                       *)
C10_RoundedByDouble ==
    rounded # PyNone =>
        /\ Nearest(rounded.distance_km, 100, distance_m, 1000)
        /\ Nearest(rounded.duration_minutes, 10, duration_s, 60)
        /\ distance_m = 12345 => rounded.distance_km = 1235
        /\ duration_s = 987 => rounded.duration_minutes = 164

C10_Witness ==
    /\ rounded # PyNone
    /\ distance_m = 12345
    /\ duration_s = 987

=============================================================================
